---- MODULE Spec2Model ----
(***************************************************************************)
(* The conversion engine of go-exchange: the three rate-source providers   *)
(* (ExchangerateHost, ExchangeRateAPI, BCBProvider), the cache they share  *)
(* and the upstream HTTP services they query.                              *)
(*                                                                         *)
(* Conventions.  A response body or cached value is a sequence of tokens   *)
(* (a JSON document, the comment delimiters, white space, other text), so  *)
(* that TrimSpace / HasPrefix / TrimPrefix / json.Unmarshal are computed   *)
(* on it.  Rates are exact decimals in thousandths (5.5 is 5500).          *)
(***************************************************************************)
EXTENDS Integers, Sequences, FiniteSets, TLC

(* ----------------------------- bounds ---------------------------------- *)
MaxRetriesBound == 1
MaxBackDaysBound == 1

(* ------------------------ program constants ---------------------------- *)
RateScale == 1000
StatusOK == 200
StatusInternalServerError == 500
CacheTTLSeconds == 1200
BackoffBase == 2
StatusBadGateway == 502
ConvertTTLSeconds == 300
FeeScale == 10000

HOST == "exchangerate.host"
KEYED == "exchangerate-api"
BCB == "bcb"
Providers == {HOST, KEYED, BCB}

Codes == {"USD", "usd", "BRL", "EUR"}
Amounts == {-150, 0, 10000}

(* strings.ToUpper on the currency codes of the model *)
ToUpper(s) ==
  CASE s = "usd" -> "USD"
    [] s = "brl" -> "BRL"
    [] s = "eur" -> "EUR"
    [] OTHER -> s

(* ------------------------------ bodies --------------------------------- *)
(* a token of a body: a JSON object (with the fields it carries), or text  *)
Tok(t) == [t |-> t]
JsonTok(d) == [t |-> "json", doc |-> d]

OPEN == Tok("/*")
CLOSE == Tok("*/")
WS == Tok(" ")
JUNK == Tok("junk")

Quote(compra, venda) == [cotacaoCompra |-> compra, cotacaoVenda |-> venda]
Q42 == Quote(4000, 4200)
Q55 == Quote(5000, 5500)

PlainBody(qs) == <<JsonTok([value |-> qs])>>
WrappedBody(qs) == <<OPEN, JsonTok([value |-> qs]), CLOSE>>
GarbageBody == <<JUNK>>
EmptyString == <<>>

HostRates == {<<"BRL", 12345>>, <<"USD", 150>>}
HostOKBody == <<JsonTok([success |-> TRUE, rates |-> HostRates])>>
HostNoKeyBody ==
  <<JsonTok([success |-> FALSE,
             error |-> [type |-> "missing_access_key", info |-> "no key"]])>>
HostFailBody == <<JsonTok([success |-> FALSE])>>
HostOtherErrBody ==
  <<JsonTok([success |-> FALSE,
             error |-> [type |-> "invalid_base_currency", info |-> "bad base"]])>>
KeyedOKBody == <<JsonTok([result |-> "success", conversion_rates |-> HostRates])>>
KeyedBadBody == <<JsonTok([result |-> "error"])>>
KeyedNoResultBody == <<JsonTok([conversion_rates |-> HostRates])>>

(* what an upstream may put in a 200 response *)
OKBodies(prov) ==
  CASE prov = BCB -> {PlainBody(<<Q42, Q55>>), WrappedBody(<<Q55>>),
                      PlainBody(<<>>), GarbageBody}
    [] prov = HOST -> {HostOKBody, HostNoKeyBody, HostFailBody, HostOtherErrBody,
                       GarbageBody}
    [] OTHER -> {KeyedOKBody, KeyedBadBody, KeyedNoResultBody, GarbageBody}

ErrorBody == <<Tok("server error")>>

(* an HTTP exchange: a transport error (status 0) or a status with a body *)
Resp(status, body) == [status |-> status, body |-> body]
TransportError == Resp(0, EmptyString)
Responses(prov) ==
  {TransportError}
    \cup {Resp(s, ErrorBody) : s \in {404, StatusInternalServerError}}
    \cup {Resp(StatusOK, b) : b \in OKBodies(prov)}

(* --------------------------- string helpers ---------------------------- *)
RECURSIVE TrimLeft(_)
TrimLeft(s) == IF s # <<>> /\ Head(s) = WS THEN TrimLeft(Tail(s)) ELSE s

RECURSIVE TrimRight(_)
TrimRight(s) ==
  IF s # <<>> /\ s[Len(s)] = WS THEN TrimRight(SubSeq(s, 1, Len(s) - 1)) ELSE s

TrimSpace(s) == TrimRight(TrimLeft(s))
HasPrefix(s, tok) == s # <<>> /\ Head(s) = tok
HasSuffix(s, tok) == s # <<>> /\ s[Len(s)] = tok
TrimPrefix(s, tok) == IF HasPrefix(s, tok) THEN Tail(s) ELSE s
TrimSuffix(s, tok) == IF HasSuffix(s, tok) THEN SubSeq(s, 1, Len(s) - 1) ELSE s

(* json.Unmarshal: one JSON document, white space around it allowed; a     *)
(* field the document lacks keeps the zero value of its Go type            *)
UnmarshalOK(s) == Len(TrimSpace(s)) = 1 /\ TrimSpace(s)[1].t = "json"
Document(s) == TrimSpace(s)[1].doc
Field(doc, name, zero) == IF name \in DOMAIN doc THEN doc[name] ELSE zero

(* bcb.go 35-41: bcbResponse *)
BcbResponse(doc) == [Value |-> Field(doc, "value", <<>>)]

(* provider.go 106-110: the anonymous struct ExchangerateHost decodes into *)
HostResponse(doc) ==
  [Success |-> Field(doc, "success", FALSE),
   Rates |-> Field(doc, "rates", {}),
   HasError |-> "error" \in DOMAIN doc,
   ErrorType |-> Field(Field(doc, "error", <<>>), "type", ""),
   ErrorInfo |-> Field(Field(doc, "error", <<>>), "info", "")]

(* part_002 199-206: eraResponse *)
EraResponse(doc) ==
  [Result |-> Field(doc, "result", ""),
   ConversionRates |-> Field(doc, "conversion_rates", {})]

(* ------------------------------ errors --------------------------------- *)
Err(kind, status, body, info) ==
  [kind |-> kind, status |-> status, body |-> body, info |-> info]
NoErr == Err("nil", 0, EmptyString, "")
ErrTransport == Err("transport", 0, EmptyString, "")
ErrDecode == Err("decode", 0, EmptyString, "")
(* the error json.Unmarshal returns for a text it rejects: it tells where  *)
(* in that text the decoder stopped, so it is a function of the text       *)
UnmarshalErr(text) == Err("decode", 0, text, "")
ErrMissingKey(info) == Err("MissingAPIKeyError", 0, EmptyString, info)
ErrUnsuccessful == Err("unsuccessful", 0, EmptyString, "")
ErrNotFoundAsMissingKey(to) == Err("MissingAPIKeyError", 0, EmptyString, to)
ErrNotFound(to) == Err("currency not found", 0, EmptyString, to)
ErrNoRate(cur) == Err("no bcb rate found", 0, EmptyString, cur)
(* the error client.Do returns once the request's context is cancelled *)
ErrCanceled == Err("context canceled", 0, EmptyString, "")
ErrNoRateInWindow(cur) == Err("no bcb rate found in last days", 0, EmptyString, cur)

(* ----------------------------- arithmetic ------------------------------ *)
Abs(n) == IF n < 0 THEN -n ELSE n
Sign(n) == IF n < 0 THEN -1 ELSE 1
(* the rounding law: the integer nearest to n/d (d > 0), halves away from zero *)
Round(n, d) == Sign(n) * ((2 * Abs(n) + d) \div (2 * d))

(* ------------------------------ float64 -------------------------------- *)
(* The providers compute in float64.  A float64 is [neg, m, e], the value   *)
(* (-1)^neg * m * 2^e with m = 0 or 2^52 <= m < 2^53; m and the integers of *)
(* the intermediate steps are naturals written in base LimbBase, least      *)
(* significant limb first, without leading zero limbs.                      *)
LimbBits == 15
LimbBase == 32768
MantissaBits == 53

RECURSIVE BigNorm(_)
BigNorm(a) == IF a # <<>> /\ a[Len(a)] = 0 THEN BigNorm(SubSeq(a, 1, Len(a) - 1)) ELSE a

RECURSIVE BigOfNat(_)
BigOfNat(n) == IF n = 0 THEN <<>> ELSE <<n % LimbBase>> \o BigOfNat(n \div LimbBase)

RECURSIVE BigToNat(_)
BigToNat(a) == IF a = <<>> THEN 0 ELSE Head(a) + LimbBase * BigToNat(Tail(a))

RECURSIVE BigAddCarry(_, _, _)
BigAddCarry(a, b, c) ==
  IF a = <<>> /\ b = <<>>
    THEN IF c = 0 THEN <<>> ELSE <<c>>
    ELSE LET x == (IF a = <<>> THEN 0 ELSE Head(a)) + (IF b = <<>> THEN 0 ELSE Head(b)) + c
         IN  <<x % LimbBase>>
               \o BigAddCarry(IF a = <<>> THEN a ELSE Tail(a),
                              IF b = <<>> THEN b ELSE Tail(b), x \div LimbBase)
BigAdd(a, b) == BigAddCarry(a, b, 0)

RECURSIVE BigMulLimb(_, _, _)
BigMulLimb(a, d, c) ==
  IF a = <<>>
    THEN IF c = 0 THEN <<>> ELSE <<c>>
    ELSE LET x == Head(a) * d + c
         IN  <<x % LimbBase>> \o BigMulLimb(Tail(a), d, x \div LimbBase)

RECURSIVE BigMulRaw(_, _)
BigMulRaw(a, b) ==
  IF b = <<>> \/ a = <<>>
    THEN <<>>
    ELSE BigAdd(BigMulLimb(a, Head(b), 0), <<0>> \o BigMulRaw(a, Tail(b)))
BigMul(a, b) == BigNorm(BigMulRaw(a, b))

(* a <= b, both without leading zero limbs *)
RECURSIVE BigLeqFrom(_, _, _)
BigLeqFrom(a, b, i) ==
  IF i = 0 THEN TRUE
  ELSE IF a[i] # b[i] THEN a[i] < b[i]
  ELSE BigLeqFrom(a, b, i - 1)
BigLeq(a, b) ==
  IF Len(a) # Len(b) THEN Len(a) < Len(b) ELSE BigLeqFrom(a, b, Len(a))

BigPow2(k) ==
  [i \in 1..(k \div LimbBits + 1) |->
     IF i = k \div LimbBits + 1 THEN 2 ^ (k % LimbBits) ELSE 0]

RECURSIVE BitLenNat(_)
BitLenNat(n) == IF n = 0 THEN 0 ELSE 1 + BitLenNat(n \div 2)
BigBitLen(a) == IF a = <<>> THEN 0 ELSE LimbBits * (Len(a) - 1) + BitLenNat(a[Len(a)])

BigOdd(a) == a # <<>> /\ Head(a) % 2 = 1

(* the bits i, i-1, ..., lo of floor(n / d), added to q; each bit is        *)
(* settled before the next one is tried                                     *)
RECURSIVE BigDivRange(_, _, _, _, _)
RECURSIVE BigDivStep(_, _, _, _, _)
RECURSIVE BigDivTry(_, _, _, _, _, _)
BigDivStep(n, d, next, i, lo) ==
  IF next = <<>> THEN BigDivRange(n, d, <<>>, i - 1, lo)
                 ELSE BigDivRange(n, d, next, i - 1, lo)
BigDivTry(n, d, q, c, i, lo) ==
  BigDivStep(n, d, IF BigLeq(BigMul(c, d), n) THEN c ELSE q, i, lo)
BigDivRange(n, d, q, i, lo) ==
  IF i < lo THEN q
  ELSE IF q = <<>> THEN BigDivTry(n, d, <<>>, BigPow2(i), i, lo)
  ELSE BigDivTry(n, d, q, BigAdd(q, BigPow2(i)), i, lo)

(* the bits i, ..., 0 of floor(n / d) (i < 56), taken eight at a time *)
MinInt(a, b) == IF a < b THEN a ELSE b
BigDivBits(n, d, q, i) ==
  BigDivRange(n, d,
    BigDivRange(n, d,
      BigDivRange(n, d,
        BigDivRange(n, d,
          BigDivRange(n, d,
            BigDivRange(n, d,
              BigDivRange(n, d, q, i, 48),
              MinInt(i, 47), 40),
            MinInt(i, 39), 32),
          MinInt(i, 31), 24),
        MinInt(i, 23), 16),
      MinInt(i, 15), 8),
    MinInt(i, 7), 0)

(* floor(n / d) rounded to nearest: -1 below half, 0 at half, 1 above half *)
BigCmp(a, b) == IF a = b THEN 0 ELSE IF BigLeq(a, b) THEN -1 ELSE 1
BigHalfCmp(n, d, q) == BigCmp(BigAdd(n, n), BigMul(BigAdd(BigAdd(q, q), <<1>>), d))

F64Zero == [neg |-> FALSE, m |-> <<>>, e |-> 0]

(* the float64 nearest to n / d * 2^x, ties to even: what a float64         *)
(* operation returns for the exact result n / d * 2^x (n, d > 0).  The      *)
(* exponent e is chosen with 2^52 <= n / (d * 2^e) < 2^53, the quotient is  *)
(* taken bit by bit, the remainder decides the last bit, and a mantissa     *)
(* that reaches 2^53 moves to the next exponent.                            *)
F64Carry(neg, x, e, m) ==
  IF m = BigPow2(MantissaBits)
    THEN [neg |-> neg, m |-> BigPow2(MantissaBits - 1), e |-> e + 1 + x]
    ELSE [neg |-> neg, m |-> m, e |-> e + x]
F64Pack(neg, x, e, q, h) ==
  F64Carry(neg, x, e, IF h > 0 \/ (h = 0 /\ BigOdd(q)) THEN BigAdd(q, <<1>>) ELSE q)
F64Tie(neg, x, e, num, den, q) ==
  IF q = <<>> THEN F64Zero ELSE F64Pack(neg, x, e, q, BigHalfCmp(num, den, q))
F64Quot(neg, x, e, num, den) ==
  IF num = <<>> \/ den = <<>> THEN F64Zero
  ELSE F64Tie(neg, x, e, num, den, BigDivBits(num, den, <<>>, MantissaBits - 1))
F64Pick(neg, x, e0, num, den, up) ==
  F64Quot(neg, x, IF up THEN e0 + 1 ELSE e0, num, IF up THEN BigAdd(den, den) ELSE den)
F64Adjust(neg, x, e0, num, den) ==
  F64Pick(neg, x, e0, num, den, BigLeq(BigMul(den, BigPow2(MantissaBits)), num))
F64Scale(neg, n, d, x, e0) ==
  F64Adjust(neg, x, e0, IF e0 < 0 THEN BigMul(n, BigPow2(-e0)) ELSE n,
            IF e0 < 0 THEN d ELSE BigMul(d, BigPow2(e0)))
F64Nearest(neg, n, d, x) ==
  F64Scale(neg, n, d, x, BigBitLen(n) - BigBitLen(d) - MantissaBits)

(* float64(n) of an int64, and the float64 a decimal literal n/d parses to *)
F64OfInt(n) == IF n = 0 THEN F64Zero ELSE F64Nearest(n < 0, BigOfNat(Abs(n)), <<1>>, 0)
F64OfDecimal(n, d) ==
  IF n = 0 THEN F64Zero ELSE F64Nearest(n < 0, BigOfNat(Abs(n)), BigOfNat(d), 0)

(* x * y and x / y (y # 0) in float64 *)
F64Mul(x, y) ==
  IF x.m = <<>> \/ y.m = <<>> THEN F64Zero
  ELSE F64Nearest(x.neg # y.neg, BigMul(x.m, y.m), <<1>>, x.e + y.e)
F64Div(x, y) ==
  IF x.m = <<>> THEN F64Zero
  ELSE F64Nearest(x.neg # y.neg, x.m, y.m, x.e - y.e)

(* int64(math.Round(x)): nearest integer, halves away from zero *)
F64Signed(neg, r) == IF neg THEN -r ELSE r
F64RoundHalf(neg, n, d, q) ==
  IF BigHalfCmp(n, d, q) >= 0 THEN F64Signed(neg, BigToNat(q) + 1)
                              ELSE F64Signed(neg, BigToNat(q))
F64RoundQuot(neg, n, d) ==
  IF n = <<>> THEN 0 ELSE F64RoundHalf(neg, n, d, BigDivBits(n, d, <<>>, 30))
F64RoundToInt(x) ==
  IF x.m = <<>> THEN 0
  ELSE F64RoundQuot(x.neg, IF x.e < 0 THEN x.m ELSE BigMul(x.m, BigPow2(x.e)),
                    IF x.e < 0 THEN BigPow2(-x.e) ELSE <<1>>)

F64Hundred == F64OfInt(100)
F64Rate(r) == F64OfDecimal(r, RateScale)

(* the rates the bodies of the model carry *)
BcbRates == {Q42.cotacaoVenda, Q55.cotacaoVenda}
MapRates == {p[2] : p \in HostRates}

(* amountUnits := float64(amount) / 100.0 *)
AmountUnits(amount) == F64Div(F64OfInt(amount), F64Hundred)

(* int64(math.Round(amountUnits * rate * 100.0)) *)
CentsTimes ==
  [a \in Amounts, r \in BcbRates \cup MapRates |->
     F64RoundToInt(F64Mul(F64Mul(AmountUnits(a), F64Rate(r)), F64Hundred))]

(* int64(math.Round(amountUnits / toBRL * 100.0)) *)
CentsOver ==
  [a \in Amounts, r \in BcbRates |->
     F64RoundToInt(F64Mul(F64Div(AmountUnits(a), F64Rate(r)), F64Hundred))]

(* rate := fromBRL / toBRL; int64(math.Round(amountUnits * rate * 100.0)) *)
CentsCross ==
  [a \in Amounts, r1 \in BcbRates, r2 \in BcbRates |->
     F64RoundToInt(F64Mul(F64Mul(AmountUnits(a), F64Div(F64Rate(r1), F64Rate(r2))),
                          F64Hundred))]


(* ------------------------------- state --------------------------------- *)
VARIABLES
  cfg,      \* the configuration the provider was built from
  cache,    \* the Cache Port: key -> [val, ttl]
  wk,       \* per worker: the Convert call it is running
  srv       \* the HTTP server: its fee provider, the /convert request under way

vars == <<cfg, cache, wk, srv>>

(* ---------------------------- Cache Port ------------------------------- *)
Restrict(f, S) == [x \in S |-> f[x]]
EmptyCache == Restrict(<<>>, {})

(* RedisCache.Get: the value, or "" with a nil error on a miss *)
CacheGet(c, key) == IF key \in DOMAIN c THEN c[key].val ELSE EmptyString

(* a Set that is not atomic: the bytes of two writers end up in one value *)
CacheSetTorn(c, key, val, ttl) ==
  (key :> [val |-> IF key \in DOMAIN c /\ c[key].val # val THEN c[key].val \o val ELSE val,
           ttl |-> ttl])
  @@ Restrict(c, DOMAIN c \ {key})

(* RedisCache.Set: last writer wins *)
CacheSet(c, key, val, ttl) ==
  (key :> [val |-> val, ttl |-> ttl]) @@ Restrict(c, DOMAIN c \ {key})

(* redis.go 26-37: what Get hands back, the Redis server reachable or not *)
CacheGetResult(c, key, up) ==
  IF up THEN [val |-> CacheGet(c, key), err |-> FALSE]
        ELSE [val |-> EmptyString, err |-> TRUE]

(* provider.go 58-59, bcb.go 64-65: the value the lookup goes on with: the  *)
(* one Get returned if there is a cache, err == nil and the value is not   *)
(* empty; "" otherwise                                                     *)
CachedOrMiss(hasCache, g) ==
  IF hasCache /\ ~g.err /\ g.val # EmptyString THEN g.val ELSE EmptyString

BcbCacheKey(currency) == "rates:bcb:" \o ToUpper(currency)
HostCacheKey(from) == "rates:exchangerate.host:" \o from
KeyedCacheKey(from) == "rates:exchangerate-api:" \o from

(* --------------------------- worker records ---------------------------- *)
NoRep == [valid |-> FALSE, result |-> 0]
NoLast == [ok |-> FALSE, from |-> "", to |-> "", amount |-> 0, result |-> 0]

IdleWorker ==
  [pc |-> "idle", from |-> "", to |-> "", amount |-> 0, cur |-> "", leg |-> 0,
   rate1 |-> 0, rate |-> 0, seen |-> EmptyString, day |-> 0, attempt |-> 0,
   sleepSecs |-> 0, log |-> <<>>, fetched |-> FALSE, writes |-> <<>>,
   result |-> 0, err |-> NoErr, rep |-> NoRep, miss |-> FALSE, last |-> NoLast,
   ctxDone |-> FALSE]

(* the HTTP requests the call has sent: those of the lookup under way (log) *)
(* and whether an earlier lookup of the same call sent any (fetched)       *)
NoRequests(s) == ~s.fetched /\ s.log = <<>>

Return(s, result, err) == [s EXCEPT !.pc = "done", !.result = result, !.err = err]

(* ============================ BCBProvider ============================== *)

(* int64(x) for a float64 x that is an infinity or a NaN: the Go           *)
(* specification leaves the value to the implementation.  amd64 yields the *)
(* smallest int64 for all three; arm64 saturates and turns NaN into 0.     *)
MinInt64 == "math.MinInt64"
MaxInt64 == "math.MaxInt64"
Int64OfSpecial(arch, x) ==
  CASE arch = "amd64" -> MinInt64
    [] x = "+Inf" -> MaxInt64
    [] x = "-Inf" -> MinInt64
    [] OTHER -> 0

(* a / 0.0 and its products with positive numbers: an infinity with the    *)
(* sign of a, NaN for a = 0                                                *)
OverZero(a) == IF a > 0 THEN "+Inf" ELSE IF a < 0 THEN "-Inf" ELSE "NaN"

(* bcb.go 151-153, 160-162, 174-177: the arithmetic of Convert; a rate of 0 *)
(* is divided by like any other                                            *)
BcbOver(amount, toBRL) ==
  IF toBRL = 0 THEN Int64OfSpecial(cfg.arch, OverZero(amount))
               ELSE CentsOver[amount, toBRL]
BcbTimes(amount, fromBRL) ==
  IF fromBRL = 0 THEN 0 ELSE CentsTimes[amount, fromBRL]
BcbCross(amount, fromBRL, toBRL) ==
  IF toBRL = 0
    THEN Int64OfSpecial(cfg.arch, IF fromBRL = 0 THEN "NaN" ELSE OverZero(amount))
  ELSE IF fromBRL = 0 THEN 0
  ELSE CentsCross[amount, fromBRL, toBRL]

(* bcb.go 145-177: what Convert does with the rate a getRate call returned *)
BcbGotRate(s, r) ==
  LET fromU == ToUpper(s.from)
      toU == ToUpper(s.to)
      t == [s EXCEPT !.rate = r]
  IN  IF fromU = "BRL"
        THEN Return(t, BcbOver(s.amount, r), NoErr)
      ELSE IF toU = "BRL"
        THEN Return(t, BcbTimes(s.amount, r), NoErr)
      ELSE IF s.leg = 1
        THEN [t EXCEPT !.pc = "lookup", !.leg = 2, !.cur = toU, !.rate1 = r,
                       !.fetched = (s.log # <<>>), !.log = <<>>,
                       !.seen = EmptyString, !.day = 0, !.attempt = 0]
      ELSE Return(t, BcbCross(s.amount, s.rate1, r), NoErr)

(* bcb.go 77, 86, 105-107, 142: the head of the day loop and of the attempt loop *)
BcbEnterDay(s, i) ==
  IF i > cfg.maxBackDays \/ cfg.maxRetries < 0
    THEN Return(s, 0, ErrNoRateInWindow(s.cur))
    ELSE [s EXCEPT !.pc = "request", !.day = i, !.attempt = 0]

(* bcb.go 62-75: the cache lookup of getRate *)
BcbAfterGet(s, cached) ==
  LET t == [s EXCEPT !.seen = cached, !.miss = @ \/ cached = EmptyString]
  IN  IF /\ cached # EmptyString /\ UnmarshalOK(cached)
         /\ Len(BcbResponse(Document(cached)).Value) > 0
        THEN BcbGotRate(t, Field(BcbResponse(Document(cached)).Value[1], "cotacaoVenda", 0))
        ELSE BcbEnterDay(t, 0)

BcbCacheLookup(s, c) ==
  BcbAfterGet(s, CachedOrMiss(TRUE, CacheGetResult(c, BcbCacheKey(s.cur), TRUE)))

(* bcb.go 115-128: decode the body, once more without the comment delimiters *)
BcbStripped(body) == TrimSpace(TrimSuffix(TrimPrefix(TrimSpace(body), OPEN), CLOSE))
BcbIsWrapped(body) == HasPrefix(TrimSpace(body), OPEN) /\ HasSuffix(TrimSpace(body), CLOSE)
BcbDecodeOK(body) ==
  UnmarshalOK(body) \/ (BcbIsWrapped(body) /\ UnmarshalOK(BcbStripped(body)))
BcbDecode(body) ==
  IF UnmarshalOK(body) THEN BcbResponse(Document(body))
                       ELSE BcbResponse(Document(BcbStripped(body)))

(* bcb.go 116-127: both failure returns give err, the error of the first   *)
(* json.Unmarshal, whose input is the body as received                     *)
BcbDecodeErrorSecond(body) ==
  IF BcbIsWrapped(body) THEN UnmarshalErr(BcbStripped(body)) ELSE UnmarshalErr(body)
BcbDecodeError(body) == UnmarshalErr(body)

(* bcb.go 138: the value written to the cache after a successful day *)
BcbCachedValue(body) == body

(* bcb.go 97: the backoff before the next attempt, in seconds *)
BcbBackoffLinear(attempt) == BackoffBase * attempt
BcbBackoff(attempt) == BackoffBase ^ attempt

(* bcb.go 95: a response that is retried *)
BcbRetryableAnyError(status, attempt) == status >= 400 /\ attempt < cfg.maxRetries
BcbRetryableNoLimit(status, attempt) == status >= 500
BcbRetryable(status, attempt) == status >= 500 /\ attempt < cfg.maxRetries

(* bcb.go 96-98: close the body, sleep, then the next attempt for the same date *)
BcbRetryNextDay(s) == BcbEnterDay(s, s.day + 1)
BcbRetry(s) == [s EXCEPT !.pc = "sleep", !.sleepSecs = BcbBackoff(s.attempt)]

(* bcb.go 131: an empty quote list moves on while days remain in the window *)
BcbMoreDaysOffByOne(day) == day + 1 < cfg.maxBackDays
BcbMoreDays(day) == day < cfg.maxBackDays

(* bcb.go 140: the rate getRate returns from a decoded response *)
BcbRateOfLast(br) == br.Value[Len(br.Value)].cotacaoVenda
BcbRateOf(br) == Field(br.Value[1], "cotacaoVenda", 0)

(* bcb.go 88-140: one HTTP attempt of getRate and what follows its response; *)
(* yields the worker and the cache                                         *)
BcbAttempt(s0, c, resp) ==
  LET s == [s0 EXCEPT !.log = Append(@, [day |-> s0.day, attempt |-> s0.attempt,
                                         resp |-> resp])]
      br == BcbDecode(resp.body)   \* evaluated only where the decode succeeded
      key == BcbCacheKey(s.cur)
      val == BcbCachedValue(resp.body)
  IN  IF resp = TransportError
        THEN <<Return(s, 0, ErrTransport), c>>
      ELSE IF resp.status # StatusOK
        THEN IF BcbRetryable(resp.status, s.attempt)
               THEN <<BcbRetry(s), c>>
               ELSE <<Return(s, 0, Err("status", resp.status, resp.body, "")), c>>
      ELSE IF ~BcbDecodeOK(resp.body)
        THEN <<Return(s, 0, BcbDecodeError(resp.body)), c>>
      ELSE IF Len(br.Value) = 0
        THEN IF BcbMoreDays(s.day)
               THEN <<BcbEnterDay(s, s.day + 1), c>>
               ELSE <<Return(s, 0, ErrNoRate(s.cur)), c>>
      ELSE <<BcbGotRate([s EXCEPT !.writes = Append(@, [key |-> key, val |-> val,
                                                        ttl |-> CacheTTLSeconds])],
                        BcbRateOf(br)),
             CacheSet(c, key, val, CacheTTLSeconds)>>

(* bcb.go 54-59, 146-165: the entry of Convert *)
BcbStartNoIdentity(s) ==
  [s EXCEPT !.pc = "lookup", !.leg = 1,
            !.cur = IF ToUpper(s.from) = "BRL" THEN ToUpper(s.to) ELSE ToUpper(s.from)]
BcbStartToFirst(s) ==
  LET fromU == ToUpper(s.from)
      toU == ToUpper(s.to)
  IN  IF fromU = toU
        THEN Return(s, s.amount, NoErr)
        ELSE [s EXCEPT !.pc = "lookup", !.leg = 1,
                       !.cur = IF toU = "BRL" THEN fromU ELSE toU]
BcbStart(s) ==
  LET fromU == ToUpper(s.from)
      toU == ToUpper(s.to)
  IN  IF fromU = toU
        THEN Return(s, s.amount, NoErr)
        ELSE [s EXCEPT !.pc = "lookup", !.leg = 1,
                       !.cur = IF fromU = "BRL" THEN toU ELSE fromU]


(* ================== ExchangerateHost and ExchangeRateAPI ================ *)
HasKey(m, code) == \E p \in m : p[1] = code
Lookup(m, code) == (CHOOSE p \in m : p[1] = code)[2]

(* provider.go 140-146 / part_002 293-300: cents at the rate found *)
ConvertAt(amount, rate) == CentsTimes[amount, rate]

(* provider.go 111-146: decode the raw body and convert *)
HostParseAnyError(s, raw) ==
  LET er == HostResponse(Document(raw))
  IN  IF ~UnmarshalOK(raw) THEN Return(s, 0, ErrDecode)
      ELSE IF ~er.Success
        THEN IF er.HasError
               THEN Return(s, 0, ErrMissingKey(er.ErrorInfo))
               ELSE Return(s, 0, ErrUnsuccessful)
      ELSE IF ~HasKey(er.Rates, s.to) THEN Return(s, 0, ErrNotFound(s.to))
      ELSE Return([s EXCEPT !.rate = Lookup(er.Rates, s.to)],
                  ConvertAt(s.amount, Lookup(er.Rates, s.to)), NoErr)
HostParse(s, raw) ==
  LET er == HostResponse(Document(raw))
  IN  IF ~UnmarshalOK(raw) THEN Return(s, 0, ErrDecode)
      ELSE IF ~er.Success
        THEN IF er.HasError /\ er.ErrorType = "missing_access_key"
               THEN Return(s, 0, ErrMissingKey(er.ErrorInfo))
               ELSE Return(s, 0, ErrUnsuccessful)
      ELSE IF ~HasKey(er.Rates, s.to) THEN Return(s, 0, ErrNotFound(s.to))
      ELSE Return([s EXCEPT !.rate = Lookup(er.Rates, s.to)],
                  ConvertAt(s.amount, Lookup(er.Rates, s.to)), NoErr)

(* part_002 268-300: decode the raw body and convert *)
KeyedParseLoose(s, raw) ==
  LET er == EraResponse(Document(raw))
  IN  IF ~UnmarshalOK(raw) THEN Return(s, 0, ErrDecode)
      ELSE IF er.Result # "success" /\ er.Result # ""
        THEN Return(s, 0, ErrMissingKey("upstream returned non-success result"))
      ELSE IF ~HasKey(er.ConversionRates, s.to) THEN Return(s, 0, ErrNotFound(s.to))
      ELSE Return([s EXCEPT !.rate = Lookup(er.ConversionRates, s.to)],
                  ConvertAt(s.amount, Lookup(er.ConversionRates, s.to)), NoErr)
KeyedParse(s, raw) ==
  LET er == EraResponse(Document(raw))
  IN  IF ~UnmarshalOK(raw) THEN Return(s, 0, ErrDecode)
      ELSE IF er.Result # "success"
        THEN Return(s, 0, ErrMissingKey("upstream returned non-success result"))
      ELSE IF ~HasKey(er.ConversionRates, s.to) THEN Return(s, 0, ErrNotFound(s.to))
      ELSE Return([s EXCEPT !.rate = Lookup(er.ConversionRates, s.to)],
                  ConvertAt(s.amount, Lookup(er.ConversionRates, s.to)), NoErr)

GenericKey(prov, from) == IF prov = HOST THEN HostCacheKey(from) ELSE KeyedCacheKey(from)
GenericParse(prov, s, raw) == IF prov = HOST THEN HostParse(s, raw) ELSE KeyedParse(s, raw)

(* provider.go 54-56: ExchangerateHost.Convert goes straight to the cache *)
HostStart(s) == [s EXCEPT !.pc = "lookup", !.leg = 1, !.cur = s.from]

(* part_002 208-214: ExchangeRateAPI.Convert checks the key first *)
KeyedStartNoCheck(s) == [s EXCEPT !.pc = "lookup", !.leg = 1, !.cur = s.from]
KeyedStart(s) ==
  IF cfg.apiKey = ""
    THEN Return(s, 0, ErrMissingKey("api key not provided for exchangerate-api"))
    ELSE [s EXCEPT !.pc = "lookup", !.leg = 1, !.cur = s.from]

(* provider.go 57-66 / part_002 215-225: the cache lookup *)
GenericAfterGet(prov, s, cached) ==
  LET t == [s EXCEPT !.seen = cached, !.miss = @ \/ cached = EmptyString]
  IN  IF cached # EmptyString
        THEN GenericParse(prov, t, cached)
        ELSE [t EXCEPT !.pc = "request"]

GenericCacheLookup(prov, s, c) ==
  GenericAfterGet(prov, s,
                  CachedOrMiss(TRUE, CacheGetResult(c, GenericKey(prov, s.from), TRUE)))

(* provider.go 72-146 / part_002 226-300: the one HTTP request and what follows *)
GenericAttempt(prov, s0, c, resp) ==
  LET s == [s0 EXCEPT !.log = Append(@, [day |-> 0, attempt |-> 0, resp |-> resp])]
      key == GenericKey(prov, s.from)
  IN  IF resp = TransportError
        THEN <<Return(s, 0, ErrTransport), c>>
      ELSE IF resp.status # StatusOK
        THEN <<Return(s, 0, Err("status", resp.status, EmptyString, "")), c>>
      ELSE <<GenericParse(prov,
                          [s EXCEPT !.writes = Append(@, [key |-> key, val |-> resp.body,
                                                          ttl |-> CacheTTLSeconds])],
                          resp.body),
             CacheSet(c, key, resp.body, CacheTTLSeconds)>>

(* ============================== actions ================================ *)

(* the record of a new call: the arguments, and whether it repeats the call *)
(* this worker just finished successfully, having written the cache        *)
NewCall(old, from, to, amount) ==
  [IdleWorker EXCEPT
     !.from = from, !.to = to, !.amount = amount,
     !.rep = IF /\ old.last.ok /\ old.last.from = from /\ old.last.to = to
                /\ old.last.amount = amount
               THEN [valid |-> TRUE, result |-> old.last.result]
               ELSE NoRep]

(* what the worker keeps of a call once Convert has returned to its caller *)
Summary(s) ==
  IF s.err = NoErr /\ s.writes # <<>>
    THEN [ok |-> TRUE, from |-> s.from, to |-> s.to, amount |-> s.amount,
          result |-> s.result]
    ELSE NoLast

(* a worker enters Provider.Convert(ctx, from, to, amount) *)
Start(w, from, to, amount) ==
  /\ wk[w].pc = "idle"
  /\ wk' = [wk EXCEPT ![w] =
       CASE cfg.provider = BCB -> BcbStart(NewCall(wk[w], from, to, amount))
         [] cfg.provider = KEYED -> KeyedStart(NewCall(wk[w], from, to, amount))
         [] OTHER -> HostStart(NewCall(wk[w], from, to, amount))]
  /\ UNCHANGED <<cfg, cache, srv>>

(* the worker reads the cache *)
Lookup_(w) ==
  /\ wk[w].pc = "lookup"
  /\ wk' = [wk EXCEPT ![w] =
       IF cfg.provider = BCB THEN BcbCacheLookup(wk[w], cache)
                             ELSE GenericCacheLookup(cfg.provider, wk[w], cache)]
  /\ UNCHANGED <<cfg, cache, srv>>

(* a variant that looks at the cache once more before sending, and takes   *)
(* what another call has stored meanwhile                                  *)
RequestCoalesced(w, resp) ==
  /\ wk[w].pc = "request"
  /\ LET key == IF cfg.provider = BCB THEN BcbCacheKey(wk[w].cur)
                                      ELSE GenericKey(cfg.provider, wk[w].from)
         out == IF key \in DOMAIN cache
                  THEN <<IF cfg.provider = BCB
                           THEN BcbCacheLookup(wk[w], cache)
                           ELSE GenericCacheLookup(cfg.provider, wk[w], cache), cache>>
                ELSE IF cfg.provider = BCB
                  THEN BcbAttempt(wk[w], cache, resp)
                  ELSE GenericAttempt(cfg.provider, wk[w], cache, resp)
     IN  /\ wk' = [wk EXCEPT ![w] = out[1]]
         /\ cache' = out[2]
  /\ UNCHANGED <<cfg, srv>>

(* the worker sends one HTTP request and handles the upstream's answer *)
Request(w, resp) ==
  /\ wk[w].pc = "request"
  /\ LET out == IF wk[w].ctxDone
                  THEN <<Return(wk[w], 0, ErrCanceled), cache>>
                ELSE IF cfg.provider = BCB
                  THEN BcbAttempt(wk[w], cache, resp)
                  ELSE GenericAttempt(cfg.provider, wk[w], cache, resp)
     IN  /\ wk' = [wk EXCEPT ![w] = out[1]]
         /\ cache' = out[2]
  /\ UNCHANGED <<cfg, srv>>

(* the error a provider would return if it passed a cache failure on *)
ErrCache == Err("cache", 0, EmptyString, "")

(* the cache lookup of a provider built without a cache (hasCache false),  *)
(* or whose Get fails (up false)                                           *)
LookupFailingFatal(w, hasCache, up) ==
  /\ wk[w].pc = "lookup"
  /\ wk' = [wk EXCEPT ![w] = Return(wk[w], 0, ErrCache)]
  /\ UNCHANGED <<cfg, cache, srv>>

LookupFailing(w, hasCache, up) ==
  /\ wk[w].pc = "lookup"
  /\ LET key == IF cfg.provider = BCB THEN BcbCacheKey(wk[w].cur)
                                      ELSE GenericKey(cfg.provider, wk[w].from)
         cached == CachedOrMiss(hasCache, CacheGetResult(cache, key, up))
     IN  wk' = [wk EXCEPT ![w] =
                  IF cfg.provider = BCB THEN BcbAfterGet(wk[w], cached)
                                        ELSE GenericAfterGet(cfg.provider, wk[w], cached)]
  /\ UNCHANGED <<cfg, cache, srv>>

(* one HTTP request of a provider without a cache, or whose Set fails: the *)
(* error of Set is dropped (provider.go 98, bcb.go 138), nothing is stored *)
RequestSetFailing(w, resp) ==
  /\ wk[w].pc = "request"
  /\ LET out == IF cfg.provider = BCB
                  THEN BcbAttempt(wk[w], cache, resp)
                  ELSE GenericAttempt(cfg.provider, wk[w], cache, resp)
     IN  wk' = [wk EXCEPT ![w] = [out[1] EXCEPT !.writes = wk[w].writes]]
  /\ UNCHANGED <<cfg, cache, srv>>

(* bcb.go 97-98: the backoff sleep ends, the next attempt follows *)
Sleep(w) ==
  /\ wk[w].pc = "sleep"
  /\ wk' = [wk EXCEPT ![w] = [@ EXCEPT !.pc = "request", !.attempt = @ + 1]]
  /\ UNCHANGED <<cfg, cache, srv>>

(* Convert has returned: the worker is free for the next request *)
Finish(w) ==
  /\ wk[w].pc = "done"
  /\ wk' = [wk EXCEPT ![w] = [IdleWorker EXCEPT !.last = Summary(wk[w])]]
  /\ UNCHANGED <<cfg, cache, srv>>

(* the caller cancels the context of a call that is past its cache lookup *)
Cancel(w) ==
  /\ wk[w].pc \in {"request", "sleep"}
  /\ ~wk[w].ctxDone
  /\ wk' = [wk EXCEPT ![w] = [@ EXCEPT !.ctxDone = TRUE]]
  /\ UNCHANGED <<cfg, cache, srv>>

(* the TTL of a cache entry runs out *)
Expire(key) ==
  /\ key \in DOMAIN cache
  /\ cache' = Restrict(cache, DOMAIN cache \ {key})
  /\ UNCHANGED <<cfg, wk, srv>>

(* ============================ HTTP server ============================== *)

(* the percentages a fee provider may return, in ten-thousandths: none,    *)
(* 0.45 % and 0.5 %                                                        *)
FeePercents == {0, 45, 50}

(* the /convert queries of the model: ?from=..&to=..&amount=<cents>        *)
ConvertQueries == {<<"USD", "BRL", 10000>>, <<"USD", "BRL", 0>>}

(* every result_cents a query of the model can have *)
ConvertResults ==
  {0} \cup {q[3] : q \in ConvertQueries}
      \cup {CentsTimes[q[3], r] : q \in ConvertQueries, r \in BcbRates}

(* part_006 173: int64(math.Round(float64(resCents) * feePct)) *)
FeeAmount ==
  [res \in ConvertResults, pct \in FeePercents |->
     F64RoundToInt(F64Mul(F64OfInt(res), F64OfDecimal(pct, FeeScale)))]

(* part_006 143: the key of a conversion result *)
ConvertKey(from, to, amountInt) ==
  "convert:" \o from \o ":" \o to \o ":" \o ToString(amountInt)

NoResponse == Resp(0, EmptyString)

(* part_006 45-62: the server as New builds it; fee is what FeePercent     *)
(* returns at this moment and feeDown whether it returns an error instead, *)
(* asked what it returned (or would have returned) while the last answered *)
(* request was handled; resCents, provErr and feeErr are the handler's     *)
(* locals resCents, err and the error of FeePercent it discards            *)
IdleServer ==
  [pc |-> "idle", feeProv |-> "none", fee |-> 0, feeDown |-> FALSE,
   from |-> "", to |-> "", amount |-> 0,
   resp |-> NoResponse, hit |-> FALSE, asked |-> 0,
   resCents |-> 0, provErr |-> NoErr, feeErr |-> FALSE]

Servers ==
  {[IdleServer EXCEPT !.feeProv = "env", !.fee = p] : p \in FeePercents \ {0}}
    \cup {[IdleServer EXCEPT !.feeProv = "api", !.fee = p] : p \in FeePercents}
    \cup {IdleServer}

(* part_006 166-185: the fee and the response document *)
FeePctKeepLast(sv) == IF sv.feeProv = "none" THEN 0 ELSE sv.fee
FeePct(sv) == IF sv.feeProv = "none" \/ sv.feeDown THEN 0 ELSE sv.fee
ConvertOut(sv, resCents) ==
  LET feePct == FeePct(sv)
      feeAmt == FeeAmount[resCents, feePct]
      netCents == resCents - feeAmt
  IN  [from |-> sv.from, to |-> sv.to, amount_cents |-> sv.amount,
       result_cents |-> resCents, fee_percent |-> feePct,
       fee_amount_cents |-> feeAmt, net_result_cents |-> netCents]

(* part_006 113-149: handleConvert up to the call of the provider: the     *)
(* cached response is written as it is, otherwise Convert starts           *)
HandleConvert(w, from, to, amountInt) ==
  /\ srv.pc = "idle" /\ wk[w].pc = "idle"
  /\ LET key == ConvertKey(from, to, amountInt)
         val == CacheGet(cache, key)
         sv == [srv EXCEPT !.from = from, !.to = to, !.amount = amountInt,
                           !.asked = srv.fee, !.resCents = 0, !.provErr = NoErr,
                           !.feeErr = FALSE]
     IN  IF val # EmptyString
           THEN /\ srv' = [sv EXCEPT !.resp = Resp(StatusOK, val), !.hit = TRUE]
                /\ UNCHANGED wk
           ELSE /\ srv' = [sv EXCEPT !.pc = "convert", !.resp = NoResponse, !.hit = FALSE]
                /\ wk' = [wk EXCEPT ![w] =
                     CASE cfg.provider = BCB -> BcbStart(NewCall(wk[w], from, to, amountInt))
                       [] cfg.provider = KEYED ->
                            KeyedStart(NewCall(wk[w], from, to, amountInt))
                       [] OTHER -> HostStart(NewCall(wk[w], from, to, amountInt))]
  /\ UNCHANGED <<cfg, cache>>

(* part_006 150-198: Convert has returned; the error answer, or the fee,   *)
(* the response document, the cache write and the 200 answer               *)
HandleResultCacheAll(w) ==
  /\ srv.pc = "convert" /\ wk[w].pc = "done"
  /\ LET s == wk[w]
         key == ConvertKey(srv.from, srv.to, srv.amount)
         b == <<JsonTok(ConvertOut(srv, s.result))>>
     IN  /\ srv' = [srv EXCEPT !.pc = "idle", !.asked = srv.fee, !.resCents = s.result,
                               !.provErr = s.err, !.resp = Resp(StatusOK, b)]
         /\ cache' = CacheSet(cache, key, b, ConvertTTLSeconds)
  /\ wk' = [wk EXCEPT ![w] = IdleWorker]
  /\ UNCHANGED cfg
HandleResult(w) ==
  /\ srv.pc = "convert" /\ wk[w].pc = "done"
  /\ LET s == wk[w]
         key == ConvertKey(srv.from, srv.to, srv.amount)
         b == <<JsonTok(ConvertOut(srv, s.result))>>
         sv == [srv EXCEPT !.pc = "idle", !.asked = srv.fee, !.resCents = s.result,
                           !.provErr = s.err]
     IN  IF s.err # NoErr
           THEN /\ srv' = [sv EXCEPT
                            !.resp = IF s.err.kind = "MissingAPIKeyError"
                                       THEN Resp(StatusBadGateway, <<Tok("requires an API key")>>)
                                       ELSE Resp(StatusInternalServerError,
                                                 <<Tok("provider error")>>)]
                /\ UNCHANGED cache
           ELSE /\ srv' = [sv EXCEPT !.resp = Resp(StatusOK, b),
                                     !.feeErr = srv.feeProv # "none" /\ srv.feeDown]
                /\ cache' = IF s.result = 0 THEN cache
                                            ELSE CacheSet(cache, key, b, ConvertTTLSeconds)
  /\ wk' = [wk EXCEPT ![w] = IdleWorker]
  /\ UNCHANGED cfg

(* fee.go 48-73: the fee service starts to answer with another percentage *)
FeeChange(pct) ==
  /\ srv.feeProv = "api" /\ pct # srv.fee
  /\ srv' = [srv EXCEPT !.fee = pct]
  /\ UNCHANGED <<cfg, cache, wk>>

(* fee.go 54-68: the fee service stops answering (transport or decode      *)
(* error), or answers again                                                *)
FeeOutage ==
  /\ srv.feeProv = "api"
  /\ srv' = [srv EXCEPT !.feeDown = ~@]
  /\ UNCHANGED <<cfg, cache, wk>>

Next ==
  \/ \E w \in DOMAIN wk :
       /\ wk[w].pc = "idle"
       /\ \E from \in Codes, to \in Codes, amount \in Amounts : Start(w, from, to, amount)
  \/ \E w \in DOMAIN wk : Lookup_(w)
  \/ \E w \in DOMAIN wk :
       /\ wk[w].pc = "request"
       /\ \E resp \in Responses(cfg.provider) : Request(w, resp)
  \/ \E w \in DOMAIN wk : Sleep(w)
  \/ \E w \in DOMAIN wk : Finish(w)
  \/ \E key \in DOMAIN cache : Expire(key)

(* what the cache may hold when the process starts: nothing, or a rates    *)
(* body stored earlier under the key of base currency USD                  *)
PrimedCaches(prov) ==
  CASE prov = BCB ->
         {EmptyCache,
          CacheSet(EmptyCache, BcbCacheKey("USD"), PlainBody(<<Q42, Q55>>), CacheTTLSeconds)}
    [] prov = HOST ->
         {EmptyCache, CacheSet(EmptyCache, HostCacheKey("USD"), HostOKBody, CacheTTLSeconds)}
    [] OTHER ->
         {EmptyCache, CacheSet(EmptyCache, KeyedCacheKey("USD"), KeyedOKBody, CacheTTLSeconds)}

ApiKeys == {"", "k"}

(* the fields each provider is built with: the API key of the keyed        *)
(* provider, the retry and look-back limits of the PTAX provider           *)
Configs(provs) ==
  {[provider |-> p, apiKey |-> k, maxRetries |-> r, maxBackDays |-> d] :
     p \in provs \ {BCB, KEYED}, k \in {""}, r \in {0}, d \in {0}}
  \cup
  {[provider |-> p, apiKey |-> k, maxRetries |-> r, maxBackDays |-> d] :
     p \in provs \cap {KEYED}, k \in ApiKeys, r \in {0}, d \in {0}}
  \cup
  {[provider |-> p, apiKey |-> k, maxRetries |-> r, maxBackDays |-> d] :
     p \in provs \cap {BCB}, k \in {""}, r \in 0..MaxRetriesBound,
     d \in 0..MaxBackDaysBound}

InitWith(provs) ==
  /\ cfg \in Configs(provs)
  /\ cache \in PrimedCaches(cfg.provider)
  /\ wk = [w \in {"w1"} |-> IdleWorker]
  /\ srv = IdleServer

Init == InitWith(Providers)

Spec == Init /\ [][Next]_vars

InitBcb == InitWith({BCB})
SpecBcb == InitBcb /\ [][Next]_vars

(* every provider, the PTAX one looking at the current day only *)
InitToday == InitWith(Providers) /\ cfg.maxBackDays = 0
SpecToday == InitToday /\ [][Next]_vars

(* the PTAX provider with callers that may cancel their context *)
NextCancel ==
  \/ Next
  \/ \E w \in DOMAIN wk : Cancel(w)

SpecCancel == InitBcb /\ [][NextCancel]_vars

(* two Convert calls at a time on one provider and one Cache Port that is   *)
(* empty at first: net/http runs each request on its own goroutine         *)
RaceQueries == {<<"USD", "BRL", 10000>>, <<"USD", "EUR", 10000>>, <<"EUR", "USD", 10000>>}

InitRace ==
  /\ cfg \in Configs(Providers) /\ cfg.maxBackDays = 0
  /\ cache = EmptyCache
  /\ wk = [w \in {"w1", "w2"} |-> IdleWorker]
  /\ srv = IdleServer

NextRace ==
  \/ \E w \in DOMAIN wk, q \in RaceQueries : Start(w, q[1], q[2], q[3])
  \/ \E w \in DOMAIN wk : Lookup_(w)
  \/ \E w \in DOMAIN wk :
       /\ wk[w].pc = "request"
       /\ \E resp \in Responses(cfg.provider) : Request(w, resp)
  \/ \E w \in DOMAIN wk : Sleep(w)

SpecRace == InitRace /\ [][NextRace]_vars

(* the PTAX provider against an upstream that answers 200 with bodies of   *)
(* every shape: plain, padded with white space, wrapped, wrapped around    *)
(* text that is no JSON, with one delimiter only, wrapped twice            *)
DecodeBodies ==
  {PlainBody(<<Q42>>), <<WS, JsonTok([value |-> <<Q42>>]), WS>>,
   WrappedBody(<<Q55>>), <<WS, OPEN, WS, JsonTok([value |-> <<Q55>>]), WS, CLOSE, WS>>,
   WrappedBody(<<>>), <<OPEN, JUNK, CLOSE>>, <<OPEN, CLOSE>>,
   <<OPEN, JsonTok([value |-> <<Q55>>])>>, <<JsonTok([value |-> <<Q55>>]), CLOSE>>,
   <<OPEN, OPEN, JsonTok([value |-> <<Q55>>]), CLOSE, CLOSE>>, GarbageBody}

DecodeQueries == {<<"USD", "BRL", 10000>>, <<"EUR", "USD", 10000>>}

InitDecode ==
  /\ cfg \in Configs({BCB}) /\ cfg.maxRetries = 0
  /\ cache = EmptyCache
  /\ wk = [w \in {"w1"} |-> IdleWorker]
  /\ srv = IdleServer

NextDecode ==
  \/ \E w \in DOMAIN wk, q \in DecodeQueries : Start(w, q[1], q[2], q[3])
  \/ \E w \in DOMAIN wk : Lookup_(w)
  \/ \E w \in DOMAIN wk :
       /\ wk[w].pc = "request"
       /\ \E b \in DecodeBodies : Request(w, Resp(StatusOK, b))
  \/ \E w \in DOMAIN wk : Finish(w)
  \/ \E key \in DOMAIN cache : Expire(key)

SpecDecode == InitDecode /\ [][NextDecode]_vars

(* every provider, with an HTTP client whose calls return and a scheduler   *)
(* that keeps running the goroutine of a call: a call that can take a step *)
(* takes it                                                                *)
LiveQueries == {<<"USD", "BRL", 10000>>, <<"EUR", "USD", 10000>>, <<"BRL", "BRL", 0>>}

Step(w) ==
  \/ Lookup_(w)
  \/ \E resp \in Responses(cfg.provider) : Request(w, resp)
  \/ Sleep(w)

NextLive ==
  \/ \E w \in DOMAIN wk, q \in LiveQueries : Start(w, q[1], q[2], q[3])
  \/ \E w \in DOMAIN wk : Step(w)
  \/ \E w \in DOMAIN wk : Finish(w)

SpecLive == Init /\ [][NextLive]_vars /\ \A w \in {"w1"} : WF_vars(Step(w))

(* every provider with a Cache Port that may fail at any call, or built     *)
(* with no cache at all (cfg.hasCache false)                               *)
OutageQueries == {<<"USD", "BRL", 10000>>, <<"EUR", "USD", 10000>>}

InitOutage ==
  /\ \E c \in Configs(Providers), h \in BOOLEAN :
       /\ c.maxBackDays = 0
       /\ cfg = [provider |-> c.provider, apiKey |-> c.apiKey, maxRetries |-> c.maxRetries,
                 maxBackDays |-> c.maxBackDays, hasCache |-> h]
  /\ cache \in PrimedCaches(cfg.provider)
  /\ wk = [w \in {"w1"} |-> IdleWorker]
  /\ srv = IdleServer

NextOutage ==
  \/ \E w \in DOMAIN wk, q \in OutageQueries : Start(w, q[1], q[2], q[3])
  \/ \E w \in DOMAIN wk : cfg.hasCache /\ Lookup_(w)
  \/ \E w \in DOMAIN wk, up \in BOOLEAN :
       (cfg.hasCache => ~up) /\ LookupFailing(w, cfg.hasCache, up)
  \/ \E w \in DOMAIN wk :
       /\ wk[w].pc = "request" /\ cfg.hasCache
       /\ \E resp \in Responses(cfg.provider) : Request(w, resp)
  \/ \E w \in DOMAIN wk :
       /\ wk[w].pc = "request"
       /\ \E resp \in Responses(cfg.provider) : RequestSetFailing(w, resp)
  \/ \E w \in DOMAIN wk : Sleep(w)
  \/ \E w \in DOMAIN wk : Finish(w)

SpecOutage == InitOutage /\ [][NextOutage]_vars

(* the PTAX provider against an upstream whose quote records may carry a   *)
(* sell rate of 0 or none; the binary is built for amd64 or for arm64      *)
Architectures == {"amd64", "arm64"}
Q0 == Quote(0, 0)
QNoSell == [cotacaoCompra |-> 5000]
ZeroBodies == {PlainBody(<<Q0>>), PlainBody(<<QNoSell>>), PlainBody(<<Q42>>)}
ZeroQueries ==
  {<<"BRL", "USD", a>> : a \in Amounts} \cup {<<"EUR", "USD", a>> : a \in Amounts}
    \cup {<<"USD", "BRL", 10000>>}

InitZero ==
  /\ \E c \in Configs({BCB}), a \in Architectures :
       /\ c.maxBackDays = 0 /\ c.maxRetries = 0
       /\ cfg = [provider |-> c.provider, apiKey |-> c.apiKey, maxRetries |-> c.maxRetries,
                 maxBackDays |-> c.maxBackDays, arch |-> a]
  /\ cache = EmptyCache
  /\ wk = [w \in {"w1"} |-> IdleWorker]
  /\ srv = IdleServer

NextZero ==
  \/ \E w \in DOMAIN wk, q \in ZeroQueries : Start(w, q[1], q[2], q[3])
  \/ \E w \in DOMAIN wk : Lookup_(w)
  \/ \E w \in DOMAIN wk :
       /\ wk[w].pc = "request"
       /\ \E b \in ZeroBodies : Request(w, Resp(StatusOK, b))
  \/ \E w \in DOMAIN wk : Finish(w)
  \/ \E key \in DOMAIN cache : Expire(key)

SpecZero == InitZero /\ [][NextZero]_vars

(* --------------------------- Provider Factory -------------------------- *)
(* The tree holds two files that define NewProviderFromConfig for package  *)
(* provider: src/internal/provider/provider.go and the first file of       *)
(* src/unnamed/part_002.  A build has one of them.                         *)
FactoryBuilds == {"provider.go", "part_002"}
ProviderNames ==
  {"exchangerate.host", "exchangerate-api", "exchangerate-api.com", "exchange-rate-api",
   "bcb", "ptax", "", "fixer"}
CachePorts == {"redis-a", "redis-b"}

(* config.Config, as far as the factory reads it, with the Cache the caller *)
(* passes along                                                            *)
EnvConfigs ==
  [build : FactoryBuilds, Provider : ProviderNames, ExchangeAPIKey : ApiKeys,
   BCBMaxRetries : 0..2, BCBMaxBackDays : 0..2, c : CachePorts]

NewExchangerateHost(apiKey, c) ==
  [provider |-> HOST, apiKey |-> apiKey, maxRetries |-> 0, maxBackDays |-> 0, cache |-> c]
NewExchangeRateAPI(apiKey, c) ==
  [provider |-> KEYED, apiKey |-> apiKey, maxRetries |-> 0, maxBackDays |-> 0, cache |-> c]
NewBCBProvider(maxRetries, maxBackDays, c) ==
  [provider |-> BCB, apiKey |-> "", maxRetries |-> maxRetries,
   maxBackDays |-> maxBackDays, cache |-> c]

(* part_002 147-172, and provider.go 150-160 where the switch has no "bcb" *)
(* and no "ptax" case                                                      *)
NewProviderFromConfig(env) ==
  CASE env.Provider = "exchangerate.host" -> NewExchangerateHost(env.ExchangeAPIKey, env.c)
    [] env.Provider \in {"exchangerate-api", "exchangerate-api.com", "exchange-rate-api"} ->
         NewExchangeRateAPI(env.ExchangeAPIKey, env.c)
    [] env.Provider \in {"bcb", "ptax"} /\ env.build = "part_002" ->
         NewBCBProvider(IF env.BCBMaxRetries = 0 THEN 3 ELSE env.BCBMaxRetries,
                        IF env.BCBMaxBackDays = 0 THEN 5 ELSE env.BCBMaxBackDays, env.c)
    [] OTHER -> NewExchangerateHost(env.ExchangeAPIKey, env.c)

(* part_006 45-49: the server loads the configuration and asks the factory *)
InitFactory ==
  /\ cfg \in {[env |-> e, built |-> FALSE] : e \in EnvConfigs}
  /\ cache = EmptyCache
  /\ wk = [w \in {"w1"} |-> IdleWorker]
  /\ srv = IdleServer

BuildProvider ==
  /\ ~cfg.built
  /\ cfg' = [env |-> cfg.env, built |-> TRUE, prov |-> NewProviderFromConfig(cfg.env)]
  /\ UNCHANGED <<cache, wk, srv>>

SpecFactory == InitFactory /\ [][BuildProvider]_vars

(* the HTTP server in front of the PTAX provider (current day only) *)
InitServer ==
  /\ cfg \in Configs({BCB}) /\ cfg.maxBackDays = 0 /\ cfg.maxRetries <= 1
  /\ cache \in PrimedCaches(cfg.provider)
  /\ wk = [w \in {"w1"} |-> IdleWorker]
  /\ srv \in Servers

NextServer ==
  \/ \E w \in DOMAIN wk, q \in ConvertQueries : HandleConvert(w, q[1], q[2], q[3])
  \/ \E w \in DOMAIN wk : Lookup_(w)
  \/ \E w \in DOMAIN wk :
       /\ wk[w].pc = "request"
       /\ \E resp \in Responses(cfg.provider) : Request(w, resp)
  \/ \E w \in DOMAIN wk : Sleep(w)
  \/ \E w \in DOMAIN wk : HandleResult(w)
  \/ \E pct \in FeePercents : FeeChange(pct)
  \/ FeeOutage
  \/ \E key \in DOMAIN cache : Expire(key)

SpecServer == InitServer /\ [][NextServer]_vars


(* =============================== claims ================================ *)
Last(s) == s.log[Len(s.log)]
Calls == {wk[w] : w \in DOMAIN wk}
IsBcb == cfg.provider = BCB

(* a 200 body whose decoded quote list is empty / is not empty *)
EmptyQuotes(resp) ==
  resp.status = StatusOK /\ BcbDecodeOK(resp.body) /\ Len(BcbDecode(resp.body).Value) = 0
HasQuotes(resp) ==
  resp.status = StatusOK /\ BcbDecodeOK(resp.body) /\ Len(BcbDecode(resp.body).Value) > 0

(* no write of the lookup under way: nothing was stored under its key *)
NoWriteFor(s) == \A j \in DOMAIN s.writes : s.writes[j].key # "rates:bcb:" \o s.cur

(* C1 as stated: with any of the three providers, Convert(c, c, a) succeeds, *)
(* returns a and sends no HTTP request.                                      *)
C1_IdentityAllProviders ==
  \A s \in Calls :
    (s.pc = "done" /\ s.from = s.to)
      => (s.err = NoErr /\ s.result = s.amount /\ NoRequests(s))

(* C1 amended: with the PTAX provider, Convert(c, c, a) returns at once with *)
(* the amount unchanged, zero and negative amounts included, without an HTTP *)
(* request (and without a cache read), whatever the cache holds.             *)
C1_IdentityBcb ==
  \A s \in Calls :
    (IsBcb /\ s.pc # "idle" /\ s.from = s.to)
      => (s.pc = "done" /\ s.err = NoErr /\ s.result = s.amount /\ NoRequests(s)
          /\ s.seen = EmptyString)

C1_Witness ==
  \E s \in Calls :
    /\ IsBcb /\ s.pc = "done" /\ s.from = "USD" /\ s.to = "USD"
    /\ s.amount = -150 /\ s.result = -150 /\ cache # EmptyCache

(* C2 as stated: a Convert that repeats the arguments of the call that just  *)
(* succeeded and populated the cache, every cache read of it finding an      *)
(* entry, sends no HTTP request and returns the same result.                 *)
C2_CacheReuse ==
  \A s \in Calls :
    (s.pc = "done" /\ s.rep.valid /\ ~s.miss)
      => (NoRequests(s) /\ s.err = NoErr /\ s.result = s.rep.result)

(* C3: the keyed provider without an API key fails every Convert with        *)
(* MissingAPIKeyError, result 0, no HTTP request and no cache read.          *)
C3_KeyedNoKey ==
  \A s \in Calls :
    (cfg.provider = KEYED /\ cfg.apiKey = "" /\ s.pc # "idle")
      => (s.pc = "done" /\ s.err.kind = "MissingAPIKeyError" /\ s.result = 0
          /\ NoRequests(s) /\ s.seen = EmptyString)

C3_Witness ==
  \E s \in Calls :
    /\ cfg.provider = KEYED /\ cfg.apiKey = "" /\ s.pc = "done"
    /\ s.from = "USD" /\ s.to = "BRL"
    /\ CacheGet(cache, "rates:exchangerate-api:USD") = KeyedOKBody
    /\ s.err.kind = "MissingAPIKeyError"

NonRetryable(resp) ==
  resp = TransportError \/ (resp.status # StatusOK /\ resp.status < 500)

C6_NonRetryable ==
  \A s \in Calls :
    IsBcb =>
      \A i \in DOMAIN s.log :
        NonRetryable(s.log[i].resp)
          => /\ i = Len(s.log) /\ s.pc = "done" /\ s.result = 0
             /\ s.err = IF s.log[i].resp = TransportError
                          THEN ErrTransport
                          ELSE Err("status", s.log[i].resp.status, s.log[i].resp.body, "")
             /\ NoWriteFor(s)

C6_Witness ==
  \E s \in Calls :
    /\ IsBcb /\ s.pc = "done" /\ Len(s.log) = 3
    /\ s.log[1].resp.status = StatusInternalServerError
    /\ EmptyQuotes(s.log[2].resp)
    /\ s.log[3].resp.status = 404 /\ s.log[3].day = 1
    /\ s.err.kind = "status" /\ s.err.status = 404

(* C7: cache miss and every request answered 200 with an empty quote list:   *)
(* the lookup queries day 0, 1, ..., maxBackDays once each, in that order,   *)
(* then fails with the no-rate-found error, having written nothing.          *)
C7_WindowExhausted ==
  \A s \in Calls :
    ( /\ IsBcb /\ s.pc = "done" /\ s.cur # "" /\ s.seen = EmptyString
      /\ \A i \in DOMAIN s.log : EmptyQuotes(s.log[i].resp) )
      => /\ Len(s.log) = cfg.maxBackDays + 1
         /\ \A i \in DOMAIN s.log : s.log[i].day = i - 1 /\ s.log[i].attempt = 0
         /\ s.err = ErrNoRate(s.cur) /\ s.result = 0
         /\ NoWriteFor(s)

C7_Witness ==
  \E s \in Calls :
    /\ IsBcb /\ cfg.maxBackDays = 1 /\ s.pc = "done" /\ s.seen = EmptyString
    /\ Len(s.log) = 2 /\ EmptyQuotes(s.log[1].resp) /\ EmptyQuotes(s.log[2].resp)
    /\ s.err.kind = "no bcb rate found"

(* the values the PTAX provider stores: the 200 bodies that carry a quote *)
BcbStorable == {b \in OKBodies(BCB) : HasQuotes(Resp(StatusOK, b))}

(* C8 as stated: when the cache read of a rate lookup finds a value the      *)
(* provider may have stored, the lookup sends no HTTP request.               *)
C8_CacheHitNoRequest ==
  \A s \in Calls :
    (IsBcb /\ s.seen \in BcbStorable) => (s.log = <<>> /\ s.pc \notin {"request", "sleep"})

(* C9 as stated: after a lookup that succeeded from a wrapped body, the      *)
(* value written to the cache is that body without the comment delimiters.   *)
C9_CachedUnwrapped ==
  \A s \in Calls :
    ( /\ IsBcb /\ s.pc = "done" /\ s.err = NoErr /\ s.log # <<>>
      /\ BcbIsWrapped(Last(s).resp.body) )
      => s.writes[Len(s.writes)].val = BcbStripped(Last(s).resp.body)

(* C10: a lookup writes the cache at most once, and only on the first 200    *)
(* response whose quote list is not empty; the write goes under              *)
(* rates:bcb:<uppercase currency> with a TTL of 20 minutes, and the lookup   *)
(* returns the sell rate of the first record.                                *)
C10_WriteDiscipline ==
  \A s \in Calls :
    IsBcb =>
      /\ Len(s.writes) <= s.leg
      /\ \A j, k \in DOMAIN s.writes : j # k => s.writes[j].key # s.writes[k].key
      /\ \A j \in DOMAIN s.writes :
           /\ s.writes[j].ttl = 20 * 60
           /\ s.writes[j].key \in {"rates:bcb:USD", "rates:bcb:EUR"}
           /\ HasQuotes(Resp(StatusOK, s.writes[j].val))
      /\ (s.from = "BRL" /\ s.to \in {"USD", "usd"} /\ s.writes # <<>>)
           => s.writes = <<[key |-> "rates:bcb:USD", val |-> Last(s).resp.body,
                            ttl |-> 1200]>>
      /\ (s.pc \in {"request", "sleep"}) => NoWriteFor(s)
      /\ \A i \in DOMAIN s.log :
           HasQuotes(s.log[i].resp)
             => /\ i = Len(s.log) /\ s.pc = "done" /\ s.err = NoErr
                /\ s.writes # <<>>
                /\ s.writes[Len(s.writes)] =
                     [key |-> "rates:bcb:" \o s.cur, val |-> s.log[i].resp.body,
                      ttl |-> 1200]
                /\ s.rate = BcbDecode(s.log[i].resp.body).Value[1].cotacaoVenda
      /\ (s.pc = "done" /\ s.log # <<>> /\ Last(s).resp = Resp(StatusOK, PlainBody(<<Q42, Q55>>)))
           => s.rate = 4200

C10_Witness ==
  \E s \in Calls :
    /\ IsBcb /\ s.pc = "done" /\ s.from = "BRL" /\ s.to = "usd" /\ s.amount = 10000
    /\ Len(s.log) = 2 /\ EmptyQuotes(s.log[1].resp)
    /\ s.writes = <<[key |-> "rates:bcb:USD", val |-> PlainBody(<<Q42, Q55>>), ttl |-> 1200]>>
    /\ s.rate = 4200 /\ s.result = 2381

(* C11 as stated: once the context is cancelled during a backoff sleep, the  *)
(* sleep does not run to completion: the step that follows ends Convert with *)
(* the cancellation error, and no further HTTP attempt is sent.              *)
C11_CancelAbortsBackoff ==
  [][\A w \in DOMAIN wk :
       (wk[w].ctxDone /\ wk[w].pc = "sleep")
         => (wk'[w].pc \in {"sleep", "done"}
             /\ (wk'[w].pc = "done" => wk'[w].err = ErrCanceled)
             /\ wk'[w].log = wk[w].log)]_vars

(* a PTAX conversion neither side of which is BRL *)
IsPivot(s) ==
  /\ IsBcb /\ s.pc # "idle" /\ ToUpper(s.from) # ToUpper(s.to)
  /\ ToUpper(s.from) # "BRL" /\ ToUpper(s.to) # "BRL"

(* C12: in a PTAX conversion between two non-BRL currencies the lookup of    *)
(* R(from) comes first and has returned a rate before anything is done for   *)
(* `to`; when it fails nothing is read, requested or written for `to`; and a *)
(* failure of either lookup ends Convert with that error and result 0.       *)
C12_PivotSequential ==
  \A s \in Calls :
    IsPivot(s) =>
      /\ s.leg \in {1, 2}
      /\ s.leg = 1 => /\ s.cur = ToUpper(s.from) /\ ~s.fetched /\ s.writes = <<>>
                      /\ s.pc = "done" => (s.err # NoErr /\ s.result = 0)
      /\ s.leg = 2 => /\ s.cur = ToUpper(s.to)
                      /\ s.rate1 \in {Q42.cotacaoVenda, Q55.cotacaoVenda}
                      /\ \A j \in DOMAIN s.writes :
                           s.writes[j].key = BcbCacheKey(s.to) => j = Len(s.writes)
      /\ (s.pc = "done" /\ s.err # NoErr)
           => /\ s.result = 0
              /\ s.log # <<>> =>
                   s.err \in {ErrTransport, UnmarshalErr(Last(s).resp.body),
                              ErrNoRate(s.cur), ErrCanceled,
                              Err("status", Last(s).resp.status, Last(s).resp.body, "")}

C12_Witness ==
  \E s \in Calls :
    /\ IsPivot(s) /\ s.pc = "done" /\ s.from = "USD" /\ s.to = "EUR"
    /\ s.leg = 2 /\ s.fetched /\ s.rate1 = 4200
    /\ s.err.kind = "status" /\ s.err.status = 404 /\ s.result = 0

(* amountCents x rate as the rounding law states it, for the rate the provider *)
(* used: rates[to], or R(from), 1/R(to), R(from)/R(to) with the PTAX provider  *)
NearestCents(s) ==
  IF ~IsBcb THEN Round(s.amount * s.rate, RateScale)
  ELSE IF ToUpper(s.to) = "BRL" THEN Round(s.amount * s.rate, RateScale)
  ELSE IF ToUpper(s.from) = "BRL" THEN Round(s.amount * RateScale, s.rate)
  ELSE Round(s.amount * s.rate1, s.rate)

(* C13 as stated: every successful conversion returns the integer nearest to *)
(* amountCents x rate, an exact half rounded away from zero.                 *)
C13_RoundingLaw ==
  \A s \in Calls :
    (s.pc = "done" /\ s.err = NoErr /\ s.cur # "") => s.result = NearestCents(s)

(* the body a finished call of the Latest-Rates or Keyed provider worked on: *)
(* the 200 body of its request, or else the cached value it read            *)
HasBody(s) ==
  /\ cfg.provider # BCB /\ s.pc = "done"
  /\ IF s.log # <<>> THEN Last(s).resp.status = StatusOK ELSE s.seen # EmptyString
BodyOf(s) == IF s.log # <<>> THEN Last(s).resp.body ELSE s.seen
IsJson(b) == Len(b) = 1 /\ b[1].t = "json"

(* C14: Latest-Rates provider, body with success = false (or without the     *)
(* field), from upstream or from the cache: Convert returns result 0 and     *)
(* MissingAPIKeyError with the upstream's info exactly when the error object *)
(* has type "missing_access_key", a generic error in every other case.       *)
C14_LatestRatesFailure ==
  \A s \in Calls :
    (cfg.provider = HOST /\ HasBody(s) /\ IsJson(BodyOf(s)))
      => LET doc == BodyOf(s)[1].doc
             failed == "success" \notin DOMAIN doc \/ ~doc.success
             nokey == "error" \in DOMAIN doc /\ doc.error.type = "missing_access_key"
         IN  failed =>
               /\ s.result = 0 /\ s.err # NoErr
               /\ nokey => s.err = ErrMissingKey(doc.error.info)
               /\ ~nokey => s.err.kind # "MissingAPIKeyError"

C14_Witness ==
  \E s \in Calls :
    /\ cfg.provider = HOST /\ s.pc = "done" /\ s.log = <<>>
    /\ s.seen = HostNoKeyBody /\ s.err = ErrMissingKey("no key") /\ s.result = 0

(* C15: Keyed provider with an API key, decoded body whose result field is   *)
(* not "success" or is missing: Convert returns MissingAPIKeyError and       *)
(* result 0, never a converted amount.                                       *)
C15_KeyedFailure ==
  \A s \in Calls :
    (cfg.provider = KEYED /\ cfg.apiKey # "" /\ HasBody(s) /\ IsJson(BodyOf(s)))
      => LET doc == BodyOf(s)[1].doc
         IN  ("result" \notin DOMAIN doc \/ doc.result # "success")
               => (s.result = 0 /\ s.err.kind = "MissingAPIKeyError")

C15_Witness ==
  \E s \in Calls :
    /\ cfg.provider = KEYED /\ cfg.apiKey = "k" /\ s.pc = "done" /\ s.log # <<>>
    /\ Last(s).resp = Resp(StatusOK, KeyedNoResultBody) /\ s.to = "BRL"
    /\ s.err.kind = "MissingAPIKeyError" /\ s.result = 0

(* the rate map of a decoded body that reports success, for either provider *)
ReportsSuccess(doc) ==
  IF cfg.provider = HOST THEN "success" \in DOMAIN doc /\ doc.success
                         ELSE "result" \in DOMAIN doc /\ doc.result = "success"
RateMapOf(doc) ==
  IF cfg.provider = HOST
    THEN (IF "rates" \in DOMAIN doc THEN doc.rates ELSE {})
    ELSE (IF "conversion_rates" \in DOMAIN doc THEN doc.conversion_rates ELSE {})

(* C16: Latest-Rates and Keyed providers, body that reports success with a  *)
(* rate map without an entry for `to`: Convert returns the currency-not-     *)
(* found error naming `to` (not MissingAPIKeyError) and result 0.            *)
C16_CurrencyNotFound ==
  \A s \in Calls :
    (HasBody(s) /\ IsJson(BodyOf(s)) /\ (cfg.provider = KEYED => cfg.apiKey # ""))
      => LET doc == BodyOf(s)[1].doc
         IN  (ReportsSuccess(doc) /\ \A p \in RateMapOf(doc) : p[1] # s.to)
               => /\ s.result = 0 /\ s.rate = 0
                  /\ s.err = Err("currency not found", 0, EmptyString, s.to)

C16_Witness ==
  \E s \in Calls :
    /\ cfg.provider = HOST /\ s.pc = "done" /\ s.from = "USD" /\ s.to = "EUR"
    /\ s.log # <<>> /\ Last(s).resp = Resp(StatusOK, HostOKBody)
    /\ s.err.kind = "currency not found" /\ s.err.info = "EUR" /\ s.result = 0

(* C17: all three providers: when the upstream answers with a non-2xx     *)
(* status, the error Convert returns carries the status code and the body. *)
C17_StatusErrorCarriesBody ==
  \A s \in Calls :
    (s.pc = "done" /\ s.log # <<>> /\ Last(s).resp.status \notin {0, StatusOK})
      => /\ s.result = 0
         /\ s.err.kind = "status"
         /\ s.err.status = Last(s).resp.status
         /\ s.err.body = Last(s).resp.body

(* the cache keys of upper-case currency codes *)
UpperKeys ==
  {BcbCacheKey(c) : c \in Codes}
    \cup {HostCacheKey(ToUpper(c)) : c \in Codes}
    \cup {KeyedCacheKey(ToUpper(c)) : c \in Codes}

(* what the same call written in upper case makes of the same body *)
UpperOutcome(s) ==
  GenericParse(cfg.provider, [s EXCEPT !.from = ToUpper(s.from), !.to = ToUpper(s.to)],
               BodyOf(s))

(* C18: all three providers: currency codes are normalised to upper case, *)
(* so a call writes the cache under the key of the upper-case code, works   *)
(* on the upper-case currency, and returns what the call with upper-case    *)
(* codes returns for the same upstream answer.                              *)
C18_CaseInsensitive ==
  \A s \in Calls :
    /\ \A i \in DOMAIN s.writes : s.writes[i].key \in UpperKeys
    /\ s.cur # "" => s.cur = ToUpper(s.cur)
    /\ (HasBody(s) /\ (cfg.provider = KEYED => cfg.apiKey # ""))
          => /\ s.result = UpperOutcome(s).result
             /\ s.err.kind = UpperOutcome(s).err.kind

(* the document of the 200 response the server wrote last *)
Answered == srv.pc = "idle" /\ srv.resp.status = StatusOK
AnswerDoc == srv.resp.body[1].doc

(* C19: in every 200 response of /convert, fee_amount_cents is result_cents *)
(* times the fee percent rounded to the nearest integer, ties away from     *)
(* zero, and net_result_cents is result_cents minus fee_amount_cents.       *)
C19_FeeComposition ==
  Answered =>
    /\ AnswerDoc.fee_amount_cents
          = Round(AnswerDoc.result_cents * AnswerDoc.fee_percent, FeeScale)
    /\ AnswerDoc.net_result_cents = AnswerDoc.result_cents - AnswerDoc.fee_amount_cents
    /\ AnswerDoc.fee_amount_cents + AnswerDoc.net_result_cents = AnswerDoc.result_cents

(* C20: with a fee provider configured, the fee fields of every 200        *)
(* response of /convert come from the percentage FeePercent returns while   *)
(* that request is handled, never from an earlier request.                  *)
C20_FeePerRequest ==
  (Answered /\ srv.feeProv # "none")
    => /\ AnswerDoc.fee_percent = srv.asked
       /\ AnswerDoc.fee_amount_cents = FeeAmount[AnswerDoc.result_cents, srv.asked]
       /\ AnswerDoc.net_result_cents
            = AnswerDoc.result_cents - FeeAmount[AnswerDoc.result_cents, srv.asked]

(* the keys of conversion results *)
ConvertKeys == {ConvertKey(q[1], q[2], q[3]) : q \in ConvertQueries}

(* C21: no entry under a convert:<from>:<to>:<amount> key holds a response *)
(* whose result_cents is 0, and a request whose provider returned 0 cents  *)
(* without an error is answered 200 with that result.                      *)
C21_ZeroNotCached ==
  /\ \A key \in DOMAIN cache \cap ConvertKeys :
       cache[key].val[1].doc.result_cents # 0
  /\ (srv.pc = "idle" /\ srv.resp # NoResponse /\ ~srv.hit
        /\ srv.provErr = NoErr /\ srv.resCents = 0)
       => /\ srv.resp.status = StatusOK
          /\ AnswerDoc.result_cents = 0

C21_Witness ==
  /\ Answered /\ ~srv.hit /\ srv.amount = 0 /\ srv.provErr = NoErr
  /\ AnswerDoc.result_cents = 0
  /\ ConvertKey(srv.from, srv.to, srv.amount) \notin DOMAIN cache
  /\ \E key \in DOMAIN cache : key \in ConvertKeys

(* C22: when FeePercent of the configured fee provider returns an error,   *)
(* /convert answers 200 with fee_percent 0, fee_amount_cents 0 and          *)
(* net_result_cents = result_cents, and result_cents is what the provider   *)
(* returned.                                                                *)
C22_FeeFailureIsNoFee ==
  (srv.pc = "idle" /\ srv.resp # NoResponse /\ ~srv.hit /\ srv.feeErr)
    => /\ srv.resp.status = StatusOK
       /\ AnswerDoc.fee_percent = 0
       /\ AnswerDoc.fee_amount_cents = 0
       /\ AnswerDoc.net_result_cents = AnswerDoc.result_cents
       /\ AnswerDoc.result_cents = srv.resCents

C22_Witness ==
  /\ Answered /\ ~srv.hit /\ srv.feeErr /\ srv.fee = 50
  /\ AnswerDoc.result_cents = 55000 /\ AnswerDoc.fee_amount_cents = 0
  /\ AnswerDoc.net_result_cents = 55000

(* the provider the specification assigns to a configured name *)
SelectedKind(name) ==
  CASE name = "exchangerate.host" -> HOST
    [] name \in {"exchangerate-api", "exchangerate-api.com", "exchange-rate-api"} -> KEYED
    [] name \in {"bcb", "ptax"} -> BCB
    [] OTHER -> HOST

(* C23: NewProviderFromConfig returns the Latest-Rates provider for         *)
(* "exchangerate.host", the Keyed provider for its three names, the PTAX    *)
(* provider for "bcb" and "ptax", the Latest-Rates provider for every other *)
(* name, and the instance holds the Cache Port it was given.                *)
C23_FactorySelection ==
  cfg.built => /\ cfg.prov.provider = SelectedKind(cfg.env.Provider)
               /\ cfg.prov.cache = cfg.env.c

(* a call whose cache lookup found nothing and that has not sent its request yet *)
MissedAndWaiting(s) == s.pc = "request" /\ s.seen = EmptyString /\ s.log = <<>>

(* C24: a Convert call whose cache lookup missed sends its own HTTP request *)
(* as its next step, whatever another call for the same key has fetched or  *)
(* stored in the meantime: it does not read the cache again and does not    *)
(* take over the other call's body.                                         *)
C24_NoCoalescing ==
  [][\A w \in DOMAIN wk :
       (MissedAndWaiting(wk[w]) /\ wk'[w] # wk[w]) =>
         /\ wk'[w].seen = EmptyString
         /\ \/ Len(wk'[w].log) = 1
            \/ wk[w].leg = 1 /\ wk'[w].leg = 2 /\ wk'[w].fetched]_vars

(* both calls missed on the same key and each of them has sent a request *)
C24_Witness ==
  /\ wk["w1"].cur = wk["w2"].cur /\ wk["w1"].from = wk["w2"].from
  /\ \A w \in DOMAIN wk :
       /\ wk[w].pc = "done" /\ wk[w].leg = 1
       /\ wk[w].seen = EmptyString /\ Len(wk[w].log) = 1
       /\ wk[w].writes # <<>>

(* the one body a lookup works on: the cached one, or the one it fetched last *)
SourceBody(s) == IF s.log = <<>> THEN s.seen ELSE Last(s).resp.body

(* the whole bodies the upstream of the configured provider can send with 200 *)
WholeBodies == {r.body : r \in {x \in Responses(cfg.provider) \ {TransportError} :
                                   x.status = StatusOK}}

FromOneBody(s) ==
  (s.pc = "done" /\ s.err = NoErr /\ s.leg >= 1) =>
     IF IsBcb
       THEN s.rate = BcbRateOf(BcbDecode(SourceBody(s)))
       ELSE s.result = GenericParse(cfg.provider, s, SourceBody(s)).result

WrittenByACall(key) ==
  \E w \in DOMAIN wk : \E i \in 1..Len(wk[w].writes) :
     wk[w].writes[i].key = key /\ wk[w].writes[i].val = cache[key].val

DirectOK(b) == UnmarshalOK(b)
Delimited(b) == HasPrefix(TrimSpace(b), OPEN) /\ HasSuffix(TrimSpace(b), CLOSE)
Inner(b) == TrimSpace(TrimSuffix(TrimPrefix(TrimSpace(b), OPEN), CLOSE))
SecondOK(b) == ~DirectOK(b) /\ Delimited(b) /\ UnmarshalOK(Inner(b))
DecodedQuotes(b) ==
  IF DirectOK(b) THEN Field(Document(b), "value", <<>>)
                 ELSE Field(Document(Inner(b)), "value", <<>>)

(* C26: the PTAX provider decodes a 200 body directly; only if that fails   *)
(* and the trimmed body starts with the opening and ends with the closing   *)
(* delimiter it strips them, trims and decodes once more; a body that       *)
(* decodes neither way ends Convert with the error of the first decode,     *)
(* with no request for an earlier date and no cache write for the currency. *)
C26_DecodeFallback ==
  \A s \in Calls :
    (s.log # <<>> /\ Last(s).resp.status = StatusOK) =>
      LET b == Last(s).resp.body
      IN  IF DirectOK(b) \/ SecondOK(b)
            THEN /\ s.err.kind # "decode"
                 /\ DecodedQuotes(b) # <<>> =>
                       /\ s.pc = "done" /\ s.err = NoErr
                       /\ s.rate = DecodedQuotes(b)[1].cotacaoVenda
            ELSE /\ s.pc = "done" /\ s.result = 0
                 /\ s.err = UnmarshalErr(b)
                 /\ s.day = Last(s).day
                 /\ \A j \in DOMAIN s.writes : s.writes[j].key # BcbCacheKey(s.cur)

(* a delimited body around text that is no JSON, received for today with a  *)
(* day of look-back left: Convert has failed with the error of the body as  *)
(* received                                                                 *)
C26_Witness ==
  \E s \in Calls :
    /\ s.pc = "done" /\ Len(s.log) = 1 /\ cfg.maxBackDays = 1
    /\ Last(s).resp.body = <<OPEN, JUNK, CLOSE>>
    /\ s.err = UnmarshalErr(<<OPEN, JUNK, CLOSE>>)
    /\ s.err # UnmarshalErr(<<JUNK>>)
    /\ cache = EmptyCache

(* the most requests one rate lookup of the PTAX provider may send *)
LookupBudget == (cfg.maxBackDays + 1) * (cfg.maxRetries + 1)

InDateOrder(log) ==
  /\ log # <<>> => log[1].day = 0
  /\ \A i \in DOMAIN log :
       /\ log[i].day \in 0..cfg.maxBackDays
       /\ log[i].attempt \in 0..cfg.maxRetries
       /\ i > 1 => \/ log[i].day = log[i - 1].day /\ log[i].attempt = log[i - 1].attempt + 1
                   \/ log[i].day = log[i - 1].day + 1 /\ log[i].attempt = 0

(* C27: every Convert call that has started returns; a PTAX rate lookup     *)
(* sends at most (maxBackDays+1) x (maxRetries+1) requests, for the dates   *)
(* today, today-1, ... in that order, and a PTAX Convert has at most two    *)
(* lookups; a Latest-Rates or Keyed Convert sends at most one request.      *)
C27_BoundedWork ==
  /\ [](\A s \in Calls :
          IF IsBcb THEN /\ Len(s.log) <= LookupBudget
                        /\ InDateOrder(s.log)
                        /\ s.leg \in 0..2
                        /\ s.fetched => s.leg = 2
                   ELSE Len(s.log) <= 1 /\ ~s.fetched)
  /\ \A w \in {"w1"} : (wk[w].pc \in {"lookup", "request", "sleep"}) ~> (wk[w].pc = "done")

(* a PTAX lookup that used its whole budget: two dates, two attempts each *)
C27_Witness ==
  \E s \in Calls :
    /\ IsBcb /\ cfg.maxBackDays = 1 /\ cfg.maxRetries = 1
    /\ s.pc = "done" /\ Len(s.log) = LookupBudget
    /\ s.log[Len(s.log)].day = 1 /\ s.log[Len(s.log)].attempt = 1

(* C28: a Convert of the Latest-Rates or Keyed provider that returns an     *)
(* error has written nothing to the cache.                                  *)
C28_FailureLeavesCache ==
  \A s \in Calls :
    (~IsBcb /\ s.pc = "done" /\ s.err # NoErr) => s.writes = <<>>

(* what the last request of a call yields in a provider whose cache works  *)
(* and holds nothing                                                        *)
WithEmptyCache(s) ==
  LET s0 == [s EXCEPT !.pc = "request", !.log = SubSeq(s.log, 1, Len(s.log) - 1),
                      !.day = Last(s).day, !.attempt = Last(s).attempt,
                      !.result = 0, !.err = NoErr]
  IN  IF IsBcb THEN BcbAttempt(s0, EmptyCache, Last(s).resp)[1]
               ELSE GenericAttempt(cfg.provider, s0, EmptyCache, Last(s).resp)[1]

(* C29: a Get that fails or returns "" is a miss and the provider fetches   *)
(* from the upstream; a failing Set is ignored; a provider without a cache  *)
(* behaves the same and leaves the store alone: Convert ends with the       *)
(* result and error it has with a cache that always misses, never with an   *)
(* error of the cache.                                                      *)
C29_CacheFailuresTolerated ==
  /\ [](\A s \in Calls :
          /\ s.err.kind # "cache"
          /\ (s.pc = "done" /\ s.leg >= 1 /\ s.seen = EmptyString) =>
                /\ s.log # <<>>
                /\ s.result = WithEmptyCache(s).result
                /\ s.err = WithEmptyCache(s).err)
  /\ [][~cfg.hasCache => cache' = cache]_vars

(* the store holds a usable body for USD, the Get failed or there is no    *)
(* cache, the call fetched, converted, and the store is as it was           *)
C29_Witness ==
  \E s \in Calls :
    /\ s.pc = "done" /\ s.err = NoErr /\ s.from = "USD" /\ s.to = "BRL"
    /\ s.seen = EmptyString /\ Len(s.log) = 1 /\ s.writes = <<>>
    /\ cache \in PrimedCaches(cfg.provider) \ {EmptyCache}
    /\ s.result > 0

(* C30: with a sell rate of 0 obtained for the target currency, a PTAX      *)
(* Convert from BRL or between two other currencies returns an error, not   *)
(* an amount.                                                               *)
C30_NoDivisionByZero ==
  \A s \in Calls :
    (s.pc = "done" /\ s.leg >= 1 /\ ToUpper(s.to) # "BRL"
       /\ s.cur = ToUpper(s.to) /\ s.rate = 0
       /\ (s.log # <<>> \/ s.seen # EmptyString)
       /\ (s.log # <<>> => Last(s).resp.status = StatusOK))
      => s.err # NoErr

====
